---- MODULE Spec2Model ----
(***************************************************************************)
(* Model of the NeuroRelay multiplexing core:                              *)
(*   nbackend.EmulationBackend  (src/src/nbackend/Emulation.go)            *)
(*   nintegration.IntegrationClient (src/src/nintegration/Client.go)       *)
(*   utilities.Server / Client  (src/src/utils/wsServer.go)                *)
(*                                                                         *)
(* Strings that the code manipulates (game names, game ids, action names)  *)
(* are sequences of one-character strings, so that normalisation,          *)
(* prefixing and prefix stripping are computed as the code computes them.  *)
(* Message texts are sequences of text chunks; "+" is \o.                  *)
(* Every handler is one atomic action; its inputs are drawn with \E.       *)
(***************************************************************************)
EXTENDS Integers, Sequences, FiniteSets, TLC

(* ------------------------------ bounds -------------------------------- *)

\* how many frames (from the peers and from the upstream) the relay handles in
\* one run
MaxFrames == 5
\* longest actions/register or actions/unregister batch
MaxBatch == 1
\* longest input string of the pure functions
MaxLen == 3
\* how many frames each goroutine writes upstream
MaxWrites == 2
\* most actions in one actions/register or actions/unregister frame of a
\* catalog
MaxActions == 2
\* how many handler goroutines run at once
MaxGoroutines == 2

Clients == {"c1", "c2"}
NoClient == "nil"

\* the display names each peer sends in `startup`: "A" and "a!" both
\* normalise to "a", and "- " normalises to the empty id
NamesOf(c) == IF c = "c1" THEN { <<"A">>, <<"-", " ">> } ELSE { <<"a", "!">>, <<"B">> }
GameNames == UNION { NamesOf(c) : c \in Clients }
RawNames == { <<"x">> }
\* the raw action names of a catalog with more than one action
CatalogNames == { <<"x">>, <<"y">> }
IDs == {"r1", "r2"}
Payloads == {"p1"}
Versions == { "1.0.0", "2.0.0" }
ResultMessages == { <<"ok">> }
\* letters, a digit, space, tab, hyphen and punctuation
Alphabet == {"A", "b", "1", " ", "\t", "-", "!"}
\* the goroutines that write upstream: Start, the upstream read loop
\* (handleNeuroMessages) and two downstream handler goroutines
Writers == {"Start", "handleNeuroMessages", "handler1", "handler2"}
NoWriter == "none"
ContextMessages == { <<"hello">> }
Queries == { <<"which?">> }

(* --------------------------- string helpers --------------------------- *)

\* strings.ToLower on one character
LowerChar(ch) ==
  CASE ch = "A" -> "a"
    [] ch = "B" -> "b"
    [] ch = "G" -> "g"
    [] ch = "X" -> "x"
    [] OTHER -> ch

IdChars == {"a","b","c","d","e","f","g","h","i","j","k","l","m","n","o","p","q",
            "r","s","t","u","v","w","x","y","z",
            "0","1","2","3","4","5","6","7","8","9","-"}

RECURSIVE CollapseHyphens(_)
\* regexp "-+" replaced by "-"
CollapseHyphens(s) ==
  IF Len(s) < 2 THEN s
  ELSE IF s[1] = "-" /\ s[2] = "-" THEN CollapseHyphens(Tail(s))
       ELSE <<s[1]>> \o CollapseHyphens(Tail(s))

RECURSIVE TrimLeft(_)
TrimLeft(s) == IF s # <<>> /\ s[1] = "-" THEN TrimLeft(Tail(s)) ELSE s

RECURSIVE TrimRight(_)
TrimRight(s) ==
  IF s # <<>> /\ s[Len(s)] = "-" THEN TrimRight(SubSeq(s, 1, Len(s) - 1)) ELSE s

\* strings.Trim(s, "-")
TrimHyphens(s) == TrimRight(TrimLeft(s))

\* a variant of normalizeGameName that deletes the characters outside
\* [a-z0-9-] as its last step
normalizeGameName_CleanLast(gameName) ==
  LET lower    == [i \in 1..Len(gameName) |-> LowerChar(gameName[i])]
      hyphened == [i \in 1..Len(lower) |-> IF lower[i] = " " THEN "-" ELSE lower[i]]
  IN  SelectSeq(TrimHyphens(CollapseHyphens(hyphened)), LAMBDA ch : ch \in IdChars)

\* EmulationBackend.normalizeGameName
normalizeGameName(gameName) ==
  LET lower    == [i \in 1..Len(gameName) |-> LowerChar(gameName[i])]
      hyphened == [i \in 1..Len(lower) |-> IF lower[i] = " " THEN "-" ELSE lower[i]]
      cleaned  == SelectSeq(hyphened, LAMBDA ch : ch \in IdChars)
  IN  TrimHyphens(CollapseHyphens(cleaned))

HasPrefix(s, p) == Len(s) >= Len(p) /\ SubSeq(s, 1, Len(p)) = p

\* strings.TrimPrefix
TrimPrefix(s, p) == IF HasPrefix(s, p) THEN SubSeq(s, Len(p) + 1, Len(s)) ELSE s

(* ----------------------------- map helpers ---------------------------- *)

Put(m, k, v) == [x \in DOMAIN m \cup {k} |-> IF x = k THEN v ELSE m[x]]
Del(m, k) == [x \in DOMAIN m \ {k} |-> m[x]]
EmptyMap == [x \in {} |-> x]

(* ------------------------------- frames ------------------------------- *)

ShutdownGameName == <<"shutdown_game">>

\* a frame written to the upstream connection
UpFrame(command, id, success, message, names, enum) ==
  [command |-> command, id |-> id, success |-> success, message |-> message,
   names |-> names, enum |-> enum]

\* a frame handed to a downstream peer
DownFrame(to, command, id, name, data, error) ==
  [to |-> to, command |-> command, id |-> id, name |-> name, data |-> data,
   error |-> error]

\* the record of the handler that ran last, with its inputs
Op(h, c, id, name, data) ==
  [h |-> h, c |-> c, id |-> id, name |-> name, data |-> data, batch |-> <<>>]


(* ------------------------------- state -------------------------------- *)

VARIABLES
  open,              \* utilities.Server.clients: peers whose send channel is open
  sessions,          \* EmulationBackend.sessions: client -> GameSession
  locked,            \* EmulationBackend.locked
  lockedToClient,    \* EmulationBackend.lockedToClient
  actionToGame,      \* IntegrationClient.actionToGame: exposed name -> game id
  registeredActions, \* IntegrationClient.registeredActions (keys)
  actionIDToGame,    \* IntegrationClient.actionIDToGame: request id -> game id
  crashed,           \* an unrecovered panic has ended the process
  timers,            \* fallback goroutines of handleShutdownGameAction still asleep
  requested,         \* history: number of upstream `action` commands per id
  answered,          \* history: number of action/result frames written upstream per id
  pending,           \* history: ids forwarded to a peer and not answered upstream since
  nframes,           \* history: number of frames handled so far
  up,                \* frames written upstream by the last handler
  down,              \* frames handed to downstream peers by the last handler
  last,              \* the handler that ran last, and its inputs
  arg,               \* the argument of the function under test
  ret,               \* the values it returned, applied again to its own result
  sendMu,            \* IntegrationClient.sendMu: the goroutine holding it
  pc,                \* where each writing goroutine is in sendToNeuro
  todo,              \* how many frames each goroutine has still to write
  scenario,          \* the handlers started by go statements, in the order of the statements
  spawned,           \* how many of them have been started
  at,                \* the next instruction of each handler goroutine
  seen,              \* the session each handler found in eb.sessions
  naming,            \* the naming each handler chose from session.VersionFeatures
  wlock,             \* the goroutine holding each mutex for writing (0: none)
  rlock,             \* the goroutines holding each mutex for reading
  sessExists,        \* whether eb.sessions has an entry for the peer
  sessObj,           \* the GameSession object of that entry (0: made before the scenario)
  nrOf               \* VersionFeatures.SupportsMultiplexing of each GameSession object

\* the state of the relay
relayVars == <<open, sessions, locked, lockedToClient, actionToGame, registeredActions,
               actionIDToGame, crashed, timers, requested, answered, pending, nframes,
               up, down, last>>

\* the state of one call of a pure function
callVars == <<arg, ret>>

\* the state of the goroutines inside sendToNeuro
writeVars == <<sendMu, pc, todo>>

\* the state of the handler goroutines and of the mutexes
goVars == <<scenario, spawned, at, seen, naming, wlock, rlock, sessExists, sessObj, nrOf>>

vars == <<relayVars, callVars, writeVars, goVars>>

\* var versionCompatibility
versionCompatibility ==
  [v \in {"1.0.0"} |-> [SupportsHealthEndpoint |-> TRUE,
                        SupportsMultiplexing   |-> TRUE,
                        SupportsCustomRouting  |-> TRUE]]

CurrentNRelayVersion == "1.0.0"

NoFeatures == [SupportsHealthEndpoint |-> FALSE,
               SupportsMultiplexing   |-> FALSE,
               SupportsCustomRouting  |-> FALSE]

\* type GameSession
GameSession(gameName, gameID, actions, compatible, version, features) ==
  [GameName |-> gameName, GameID |-> gameID, Actions |-> actions,
   NRelayCompatible |-> compatible, NRelayVersion |-> version,
   VersionFeatures |-> features]

\* EmulationBackend.GetAllSessions (the keys of the returned map)
GetAllSessions(ss) == { ss[c].GameID : c \in DOMAIN ss }

\* the ids of the games connected now
GetAllSessionIDs == GetAllSessions(sessions)

\* a name no game registers
UnknownName == <<"z">>

\* a game id no session has
UnknownGame == <<"q">>

\* the parsed data of a shutdown_game action: whether json.Unmarshal accepts
\* it, and the game_id it carries (empty when the field or the data is absent)
ShutdownParams(valid, game_id) == [valid |-> valid, game_id |-> game_id]

\* the data the upstream may send with shutdown_game
ShutdownData ==
  { ShutdownParams(FALSE, <<>>) } \cup
  { ShutdownParams(TRUE, g) : g \in GetAllSessionIDs \cup { <<>>, UnknownGame } }

\* the names the upstream may put in an `action` command: the names it was
\* told of, and one it was not
UpstreamNames == DOMAIN actionToGame \cup { UnknownName }

\* no function is under test
NoCall == arg = <<>> /\ ret = <<>>

\* no goroutine is inside sendToNeuro
NoWriters ==
  /\ sendMu = NoWriter
  /\ pc = [g \in Writers |-> "idle"]
  /\ todo = [g \in Writers |-> 0]

\* the mutexes of EmulationBackend and IntegrationClient
Mutexes == {"lockMu", "sessionsMu", "actionMu", "actionsMu", "actionIDMu", "sendMu"}

\* no handler goroutine is running
NoGoroutines ==
  /\ scenario = <<>> /\ spawned = 0
  /\ at = <<>> /\ seen = <<>> /\ naming = <<>>
  /\ wlock = [m \in Mutexes |-> 0]
  /\ rlock = [m \in Mutexes |-> {}]
  /\ sessExists = FALSE /\ sessObj = 0 /\ nrOf = <<>>

\* NewIntegrationClient / NewEmulationBackend
RelayInit ==
  /\ open = {}
  /\ sessions = EmptyMap
  /\ locked = FALSE
  /\ lockedToClient = NoClient
  /\ actionToGame = EmptyMap
  /\ registeredActions = {}
  /\ actionIDToGame = EmptyMap
  /\ crashed = FALSE
  /\ timers = {}
  /\ requested = [x \in IDs |-> 0]
  /\ answered = [x \in IDs |-> 0]
  /\ pending = {}
  /\ nframes = 0
  /\ up = <<>>
  /\ down = <<>>
  /\ last = Op("Start", NoClient, "", <<>>, "")

\* NewIntegrationClient / NewEmulationBackend, then Start
Init == RelayInit /\ NoCall /\ NoWriters /\ NoGoroutines

(* ------------------------- transport primitives ----------------------- *)

\* IntegrationClient.sendToNeuro: the frames are written in order, one at a
\* time (the upstream stays connected while the relay runs)
sendToNeuro(frames) == frames

\* IntegrationClient.sendActionResult
sendActionResult(id, success, message) ==
  UpFrame("action/result", id, success, message, <<>>, {})

\* IntegrationClient.sendContextToNeuro
sendContextToNeuro(message, silent) ==
  UpFrame("context", "", silent, message, <<>>, {})

\* Client.Send on an open channel: the frame is queued (the 256-slot buffer
\* cannot fill within MaxFrames frames)
Send(frame) == <<frame>>

ResultCount(frames, x) ==
  Cardinality({ i \in 1..Len(frames) : frames[i].command = "action/result" /\ frames[i].id = x })

\* the handlers that consume a frame
FrameHandlers == {"handleStartup", "handleNRCStartup", "handleRegisterActions",
                  "handleUnregisterActions", "handleActionResult",
                  "handleActionFromNeuro", "handleShutdownGameAction",
                  "handleContext", "handleForceActions", "handleShutdownReady",
                  "handleNRCHealth", "reregisterAllActions"}

\* bookkeeping common to every step: outputs of the step and the histories
Emit(newUp, newDown, forwarded, op) ==
  /\ op.h \in FrameHandlers => nframes < MaxFrames
  /\ nframes' = IF op.h \in FrameHandlers THEN nframes + 1 ELSE nframes
  /\ up' = newUp
  /\ down' = newDown
  /\ answered' = [x \in IDs |-> answered[x] + ResultCount(newUp, x)]
  /\ pending' = (pending \cup forwarded) \ { x \in IDs : ResultCount(newUp, x) > 0 }
  /\ last' = op
  /\ UNCHANGED <<callVars, writeVars, goVars>>

(* ------------------------------ transport ----------------------------- *)

\* Server.handleWS: a new peer connects (a fresh *Client; an identity is
\* reused only when nothing refers to it any more)
handleWS(c) ==
  /\ ~crashed
  /\ c \notin open
  /\ c \notin DOMAIN sessions
  /\ lockedToClient # c
  /\ \A t \in timers : t.client # c
  /\ open' = open \cup {c}
  /\ UNCHANGED <<sessions, locked, lockedToClient, actionToGame, registeredActions,
                 actionIDToGame, crashed, timers, requested, answered, pending, nframes,
                 up, down, last, callVars, writeVars, goVars>>

\* Server.run, case unregister: the peer is removed and its send channel closed
unregister(c) ==
  /\ ~crashed
  /\ c \in open
  /\ open' = open \ {c}
  /\ UNCHANGED <<sessions, locked, lockedToClient, actionToGame, registeredActions,
                 actionIDToGame, crashed, timers, requested, answered, pending, nframes,
                 up, down, last, callVars, writeVars, goVars>>

(* ------------------------- EmulationBackend --------------------------- *)


\* EmulationBackend.IsLocked
IsLocked == locked

\* EmulationBackend.sendJSON: Client.Send on a closed channel panics, and
\* nothing recovers the panic
sendJSON(c, frame) ==
  IF c \in open THEN [down |-> Send(frame), panic |-> FALSE]
  ELSE [down |-> <<>>, panic |-> TRUE]

\* EmulationBackend.sendError
sendError(c, command, message) ==
  sendJSON(c, DownFrame(c, command, "", <<>>, "", message))

\* IntegrationClient.registerShutdownAction
registerShutdownAction(ss) ==
  IF GetAllSessions(ss) = {}
  THEN UpFrame("actions/unregister", "", FALSE, <<>>, <<ShutdownGameName>>, {})
  ELSE UpFrame("actions/register", "", FALSE, <<>>, <<ShutdownGameName>>, GetAllSessions(ss))

\* the backend.OnStartup callback
OnStartup(ss, gameID, gameName) ==
  << sendContextToNeuro(<<"Game '">> \o gameName \o <<"' connected to relay">>, TRUE),
     registerShutdownAction(ss) >>

\* EmulationBackend.handleStartup
handleStartup(c, game) ==
  /\ ~crashed
  /\ LET gameID == normalizeGameName(game)
         ss == Put(sessions, c, GameSession(game, gameID, {}, FALSE, "", NoFeatures))
     IN  /\ sessions' = ss
         /\ Emit(sendToNeuro(OnStartup(ss, gameID, game)), <<>>, {},
                 Op("handleStartup", c, "", game, ""))
  /\ UNCHANGED <<open, locked, lockedToClient, actionToGame, registeredActions,
                 actionIDToGame, crashed, timers, requested>>

\* the nrc-endpoints/version-mismatch frame (the available versions are
\* listed in map iteration order, hence kept as a set)
VersionMismatch(to, nrVersion) ==
  [to |-> to, command |-> "nrc-endpoints/version-mismatch", id |-> "", name |-> <<>>,
   data |-> "", error |-> <<>>, requested |-> nrVersion,
   available |-> DOMAIN versionCompatibility, suggestion |-> CurrentNRelayVersion]

\* a variant of handleNRCStartup that releases the lock once the holder has
\* become NR-compatible
handleNRCStartup_ReleasesLock(c, version) ==
  /\ ~crashed
  /\ LET reply ==
           IF c \notin DOMAIN sessions
           THEN sendError(c, "nrc-endpoints/error",
                          <<"Session not found. Send 'startup' command first.">>)
           ELSE IF version \notin DOMAIN versionCompatibility
           THEN sendJSON(c, VersionMismatch(c, version))
           ELSE sendJSON(c, DownFrame(c, "nrc-endpoints/startup-ack", "", <<>>,
                                      CurrentNRelayVersion, <<>>))
         success == c \in DOMAIN sessions /\ version \in DOMAIN versionCompatibility
     IN  /\ sessions' =
              IF success
              THEN [sessions EXCEPT ![c].NRelayCompatible = TRUE,
                                    ![c].NRelayVersion = version,
                                    ![c].VersionFeatures = versionCompatibility[version]]
              ELSE sessions
         /\ locked' = IF success /\ lockedToClient = c THEN FALSE ELSE locked
         /\ lockedToClient' = IF success /\ lockedToClient = c THEN NoClient
                               ELSE lockedToClient
         /\ crashed' = reply.panic
         /\ Emit(<<>>, reply.down, {}, Op("handleNRCStartup", c, "", <<>>, version))
  /\ UNCHANGED <<open, actionToGame, registeredActions,
                 actionIDToGame, timers, requested>>

\* a variant of handleNRCStartup that records the handshake before it looks
\* the version up
handleNRCStartup_RecordsFirst(c, version) ==
  /\ ~crashed
  /\ LET reply ==
           IF c \notin DOMAIN sessions
           THEN sendError(c, "nrc-endpoints/error",
                          <<"Session not found. Send 'startup' command first.">>)
           ELSE IF version \notin DOMAIN versionCompatibility
           THEN sendJSON(c, VersionMismatch(c, version))
           ELSE sendJSON(c, DownFrame(c, "nrc-endpoints/startup-ack", "", <<>>,
                                      CurrentNRelayVersion, <<>>))
     IN  /\ sessions' =
              IF c \in DOMAIN sessions
              THEN [sessions EXCEPT ![c].NRelayCompatible = TRUE,
                                    ![c].NRelayVersion = version,
                                    ![c].VersionFeatures =
                                      IF version \in DOMAIN versionCompatibility
                                      THEN versionCompatibility[version] ELSE @]
              ELSE sessions
         /\ crashed' = reply.panic
         /\ Emit(<<>>, reply.down, {}, Op("handleNRCStartup", c, "", <<>>, version))
  /\ UNCHANGED <<open, locked, lockedToClient, actionToGame, registeredActions,
                 actionIDToGame, timers, requested>>

\* EmulationBackend.handleNRCStartup for a frame that carries an nr-version
handleNRCStartup(c, version) ==
  /\ ~crashed
  /\ LET reply ==
           IF c \notin DOMAIN sessions
           THEN sendError(c, "nrc-endpoints/error",
                          <<"Session not found. Send 'startup' command first.">>)
           ELSE IF version \notin DOMAIN versionCompatibility
           THEN sendJSON(c, VersionMismatch(c, version))
           ELSE sendJSON(c, DownFrame(c, "nrc-endpoints/startup-ack", "", <<>>,
                                      CurrentNRelayVersion, <<>>))
     IN  /\ sessions' =
              IF c \in DOMAIN sessions /\ version \in DOMAIN versionCompatibility
              THEN [sessions EXCEPT ![c].NRelayCompatible = TRUE,
                                    ![c].NRelayVersion = version,
                                    ![c].VersionFeatures = versionCompatibility[version]]
              ELSE sessions
         /\ crashed' = reply.panic
         /\ Emit(<<>>, reply.down, {}, Op("handleNRCStartup", c, "", <<>>, version))
  /\ UNCHANGED <<open, locked, lockedToClient, actionToGame, registeredActions,
                 actionIDToGame, timers, requested>>

\* a variant of RegisterName that prefixes with the separator of
\* handleUnregisterActions
RegisterName_Slash(session, raw) ==
  IF session.VersionFeatures.SupportsMultiplexing
  THEN session.GameID \o <<"/">> \o raw
  ELSE raw

\* the name handleRegisterActions forwards upstream for a raw action name
RegisterName(session, raw) ==
  IF session.VersionFeatures.SupportsMultiplexing
  THEN session.GameID \o <<"-", "-">> \o raw
  ELSE raw

\* the name handleUnregisterActions forwards upstream for a raw action name
UnregisterName(session, raw) ==
  IF session.VersionFeatures.SupportsMultiplexing
  THEN session.GameID \o <<"/">> \o raw
  ELSE raw

Range(seq) == { seq[i] : i \in 1..Len(seq) }

RECURSIVE PutAll(_, _, _)
\* the backend.OnActionRegistered callback applied to each name in turn
PutAll(m, names, gameID) ==
  IF names = <<>> THEN m ELSE PutAll(Put(m, Head(names), gameID), Tail(names), gameID)

RECURSIVE DelAll(_, _)
\* the backend.OnActionUnregistered callback applied to each name in turn
DelAll(m, names) ==
  IF names = <<>> THEN m ELSE DelAll(Del(m, Head(names)), Tail(names))

\* EmulationBackend.handleRegisterActions with backend.OnActionRegistered
handleRegisterActions(c, batch) ==
  /\ ~crashed
  /\ IF c \notin DOMAIN sessions
     THEN /\ Emit(<<>>, <<>>, {}, Op("handleRegisterActions", c, "", <<>>, ""))
          /\ UNCHANGED <<sessions, actionToGame, registeredActions>>
     ELSE LET session == sessions[c]
              exposed == [i \in 1..Len(batch) |-> RegisterName(session, batch[i])]
          IN  /\ sessions' = [sessions EXCEPT ![c].Actions = @ \cup Range(batch)]
              /\ actionToGame' = PutAll(actionToGame, exposed, session.GameID)
              /\ registeredActions' = registeredActions \cup Range(exposed)
              /\ Emit(sendToNeuro([i \in 1..Len(batch) |->
                         UpFrame("actions/register", "", FALSE, <<>>, <<exposed[i]>>, {})]),
                      <<>>, {}, [Op("handleRegisterActions", c, "", Head(batch), "") EXCEPT !.batch = batch])
  /\ UNCHANGED <<open, locked, lockedToClient, actionIDToGame, crashed, timers, requested>>

\* EmulationBackend.handleUnregisterActions with backend.OnActionUnregistered
handleUnregisterActions(c, batch) ==
  /\ ~crashed
  /\ IF c \notin DOMAIN sessions
     THEN /\ Emit(<<>>, <<>>, {}, Op("handleUnregisterActions", c, "", <<>>, ""))
          /\ UNCHANGED <<sessions, actionToGame, registeredActions>>
     ELSE LET session == sessions[c]
              exposed == [i \in 1..Len(batch) |-> UnregisterName(session, batch[i])]
          IN  /\ sessions' = [sessions EXCEPT ![c].Actions = @ \ Range(batch)]
              /\ actionToGame' = DelAll(actionToGame, exposed)
              /\ registeredActions' = registeredActions \ Range(exposed)
              /\ Emit(sendToNeuro([i \in 1..Len(batch) |->
                         UpFrame("actions/unregister", "", FALSE, <<>>, <<exposed[i]>>, {})]),
                      <<>>, {}, [Op("handleUnregisterActions", c, "", Head(batch), "") EXCEPT !.batch = batch])
  /\ UNCHANGED <<open, locked, lockedToClient, actionIDToGame, crashed, timers, requested>>

\* EmulationBackend.handleNRCHealth for a frame without an include list
handleNRCHealth(c) ==
  /\ ~crashed
  /\ LET reply ==
           IF c \notin DOMAIN sessions
           THEN [down |-> <<>>, panic |-> FALSE]
           ELSE IF ~sessions[c].VersionFeatures.SupportsHealthEndpoint
           THEN sendError(c, "nrc-endpoints/error",
                          <<"Health endpoint not supported in your NR version">>)
           ELSE sendJSON(c, DownFrame(c, "nrc-endpoints/health-response", "", <<>>,
                                      CurrentNRelayVersion, <<>>))
     IN  /\ crashed' = reply.panic
         /\ Emit(<<>>, reply.down, {}, Op("handleNRCHealth", c, "", <<>>, ""))
  /\ UNCHANGED <<open, sessions, locked, lockedToClient, actionToGame, registeredActions,
                 actionIDToGame, timers, requested>>

\* the backend.OnContext callback: the frame it writes upstream
OnContext(gameID, message, silent) ==
  sendContextToNeuro(<<"[">> \o gameID \o <<"] ">> \o message, silent)

\* a variant of handleContext without the session check: a peer with no
\* session is forwarded under the empty game id
handleContext_NoSessionCheck(c, message, silent) ==
  /\ ~crashed
  /\ IF c \notin DOMAIN sessions
     THEN Emit(sendToNeuro(<<OnContext(<<>>, message, silent)>>), <<>>, {},
               Op("handleContext", c, "", message, ""))
     ELSE Emit(sendToNeuro(<<OnContext(sessions[c].GameID, message, silent)>>), <<>>, {},
               Op("handleContext", c, "", message, ""))
  /\ UNCHANGED <<open, sessions, locked, lockedToClient, actionToGame, registeredActions,
                 actionIDToGame, crashed, timers, requested>>

\* EmulationBackend.handleContext with backend.OnContext
handleContext(c, message, silent) ==
  /\ ~crashed
  /\ IF c \notin DOMAIN sessions
     THEN Emit(<<>>, <<>>, {}, Op("handleContext", c, "", message, ""))
     ELSE Emit(sendToNeuro(<<OnContext(sessions[c].GameID, message, silent)>>), <<>>, {},
               Op("handleContext", c, "", message, ""))
  /\ UNCHANGED <<open, sessions, locked, lockedToClient, actionToGame, registeredActions,
                 actionIDToGame, crashed, timers, requested>>

\* the name handleForceActions forwards upstream for a raw action name
ForceName(session, raw) ==
  IF session.VersionFeatures.SupportsMultiplexing
  THEN session.GameID \o <<"/">> \o raw
  ELSE raw

\* the backend.OnActionForce callback: the frame it writes upstream
OnActionForce(gameID, query, actionNames) ==
  UpFrame("actions/force", "", FALSE, <<"[">> \o gameID \o <<"] ">> \o query,
          actionNames, {})

\* EmulationBackend.handleForceActions (for a frame whose action_names is a
\* list) with backend.OnActionForce
handleForceActions(c, query, batch) ==
  /\ ~crashed
  /\ LET op == [Op("handleForceActions", c, "", query, "") EXCEPT !.batch = batch]
     IN  IF c \notin DOMAIN sessions
         THEN Emit(<<>>, <<>>, {}, op)
         ELSE LET session == sessions[c]
                  processedActionNames ==
                    [i \in 1..Len(batch) |-> ForceName(session, batch[i])]
              IN  Emit(sendToNeuro(<<OnActionForce(session.GameID, query,
                                                   processedActionNames)>>),
                       <<>>, {}, op)
  /\ UNCHANGED <<open, sessions, locked, lockedToClient, actionToGame, registeredActions,
                 actionIDToGame, crashed, timers, requested>>

\* the backend.OnShutdownReady callback: the frame it writes upstream
OnShutdownReady(gameID) ==
  sendContextToNeuro(<<"Game '">> \o gameID \o <<"' has shut down gracefully">>, TRUE)

\* EmulationBackend.handleShutdownReady with backend.OnShutdownReady
handleShutdownReady(c) ==
  /\ ~crashed
  /\ IF c \notin DOMAIN sessions
     THEN Emit(<<>>, <<>>, {}, Op("handleShutdownReady", c, "", <<>>, ""))
     ELSE Emit(sendToNeuro(<<OnShutdownReady(sessions[c].GameID)>>), <<>>, {},
               Op("handleShutdownReady", c, "", <<>>, ""))
  /\ UNCHANGED <<open, sessions, locked, lockedToClient, actionToGame, registeredActions,
                 actionIDToGame, crashed, timers, requested>>

\* the backend.OnActionResult callback: the frame it writes upstream
OnActionResult(gameID, actionID, success, message) ==
  sendActionResult(actionID, success, message)

\* EmulationBackend.handleActionResult with backend.OnActionResult
handleActionResult(c, actionID, success, message) ==
  /\ ~crashed
  /\ IF c \notin DOMAIN sessions
     THEN /\ Emit(<<>>, <<>>, {}, Op("handleActionResult", c, actionID, <<>>, ""))
          /\ UNCHANGED actionIDToGame
     ELSE LET frames == sendToNeuro(<<OnActionResult(sessions[c].GameID, actionID,
                                                     success, message)>>)
          IN  /\ actionIDToGame' = Del(actionIDToGame, actionID)
              /\ Emit(frames, <<>>, {}, Op("handleActionResult", c, actionID, <<>>, ""))
  /\ UNCHANGED <<open, sessions, locked, lockedToClient, actionToGame, registeredActions,
                 crashed, timers, requested>>

\* a variant of HandleClientDisconnect that deletes the session inside the
\* lock-holder branch only
HandleClientDisconnect_HolderOnly(c) ==
  /\ ~crashed
  /\ c \notin open
  /\ IF c \in DOMAIN sessions /\ lockedToClient = c
     THEN sessions' = Del(sessions, c) /\ locked' = FALSE /\ lockedToClient' = NoClient
     ELSE UNCHANGED <<sessions, locked, lockedToClient>>
  /\ Emit(<<>>, <<>>, {}, Op("HandleClientDisconnect", c, "", <<>>, ""))
  /\ UNCHANGED <<open, actionToGame, registeredActions, actionIDToGame,
                 crashed, timers, requested>>

\* EmulationBackend.HandleClientDisconnect
HandleClientDisconnect(c) ==
  /\ ~crashed
  /\ c \notin open
  /\ sessions' = Del(sessions, c)
  /\ IF c \in DOMAIN sessions /\ lockedToClient = c
     THEN locked' = FALSE /\ lockedToClient' = NoClient
     ELSE UNCHANGED <<locked, lockedToClient>>
  /\ Emit(<<>>, <<>>, {}, Op("HandleClientDisconnect", c, "", <<>>, ""))
  /\ UNCHANGED <<open, actionToGame, registeredActions, actionIDToGame,
                 crashed, timers, requested>>

\* a variant of sendJSONSafe whose recover path reports nothing
sendJSONSafe_Silent(c, frame, gameID, actionID) ==
  IF c \in open
  THEN [err |-> FALSE, results |-> <<>>, down |-> Send(frame), removed |-> {}]
  ELSE [err |-> FALSE, results |-> <<>>, down |-> <<>>, removed |-> {c}]

\* EmulationBackend.sendJSONSafe: a send on a closed channel panics; the
\* deferred recover removes the session and reports the failure
sendJSONSafe(c, frame, gameID, actionID) ==
  IF c \in open
  THEN [err |-> FALSE, results |-> <<>>, down |-> Send(frame), removed |-> {}]
  ELSE [err |-> FALSE,
        results |-> <<OnActionResult(gameID, actionID, FALSE,
                                     <<"Game disconnected during action send">>)>>,
        down |-> <<>>, removed |-> {c}]

\* the sessions the loop of SendAction may stop at (map iteration order)
SendActionTargets(gameID) ==
  IF \E c \in DOMAIN sessions : sessions[c].GameID = gameID
  THEN { c \in DOMAIN sessions : sessions[c].GameID = gameID }
  ELSE { NoClient }

\* the action name SendAction puts in the downstream frame
OriginalActionName(session, gameID, actionName) ==
  IF session.VersionFeatures.SupportsMultiplexing
  THEN TrimPrefix(actionName, gameID \o <<"/">>)
  ELSE actionName

\* a variant of SendAction that reports success = false for a missing session
SendAction_ReportsFailure(target, gameID, actionID, actionName, data) ==
  IF target = NoClient
  THEN [err |-> TRUE,
        results |-> <<OnActionResult(gameID, actionID, FALSE,
                                     <<"Game disconnected unexpectedly">>)>>,
        down |-> <<>>, removed |-> {}]
  ELSE sendJSONSafe(target,
                    DownFrame(target, "action", actionID,
                              OriginalActionName(sessions[target], gameID, actionName),
                              data, <<>>),
                    gameID, actionID)

\* EmulationBackend.SendAction
SendAction(target, gameID, actionID, actionName, data) ==
  IF target = NoClient
  THEN [err |-> TRUE,
        results |-> <<OnActionResult(gameID, actionID, TRUE,
                                     <<"Game disconnected unexpectedly">>)>>,
        down |-> <<>>, removed |-> {}]
  ELSE sendJSONSafe(target,
                    DownFrame(target, "action", actionID,
                              OriginalActionName(sessions[target], gameID, actionName),
                              data, <<>>),
                    gameID, actionID)

\* the JSON rendering of the wants_shutdown flag
WantsShutdown(wantsShutdown) == IF wantsShutdown THEN "true" ELSE "false"

\* a variant of SendShutdown that reports no error when no session has the id
SendShutdown_NoError(target, gameID, wantsShutdown) ==
  IF target = NoClient
  THEN [err |-> FALSE, client |-> NoClient, down |-> <<>>, panic |-> FALSE]
  ELSE LET sent == sendJSON(target, DownFrame(target, "shutdown/graceful", "", <<>>,
                                              WantsShutdown(wantsShutdown), <<>>))
       IN  [err |-> FALSE, client |-> target, down |-> sent.down, panic |-> sent.panic]

\* EmulationBackend.SendShutdown, target being the session its loop stops at
SendShutdown(target, gameID, wantsShutdown) ==
  IF target = NoClient
  THEN [err |-> TRUE, client |-> NoClient, down |-> <<>>, panic |-> FALSE]
  ELSE LET sent == sendJSON(target, DownFrame(target, "shutdown/graceful", "", <<>>,
                                              WantsShutdown(wantsShutdown), <<>>))
       IN  [err |-> FALSE, client |-> target, down |-> sent.down, panic |-> sent.panic]

(* ------------------------- IntegrationClient -------------------------- *)

\* a variant of UnknownActionMessage that leaves the action name out
UnknownActionMessage_NoName(actionName) == <<"Unknown action">>

\* the message of the failure result for a name that is not in actionToGame
UnknownActionMessage(actionName) == <<"Unknown action: ">> \o actionName

\* IntegrationClient.handleActionFromNeuro for a relayed action (a message
\* with a data object whose name is not shutdown_game)
handleActionFromNeuro(actionID, actionName, data, target) ==
  /\ ~crashed
  /\ actionName # ShutdownGameName
  /\ requested' = [requested EXCEPT ![actionID] = @ + 1]
  /\ IF actionName \notin DOMAIN actionToGame
     THEN LET frames == sendToNeuro(<<sendActionResult(actionID, FALSE,
                                                       UnknownActionMessage(actionName))>>)
          IN  /\ target = NoClient
              /\ Emit(frames, <<>>, {},
                      Op("handleActionFromNeuro", NoClient, actionID, actionName, data))
              /\ UNCHANGED <<sessions, actionIDToGame>>
     ELSE LET gameID == actionToGame[actionName]
              bound == Put(actionIDToGame, actionID, gameID)
              sent == SendAction(target, gameID, actionID, actionName, data)
              frames == sendToNeuro(sent.results)
          IN  /\ target \in SendActionTargets(gameID)
              /\ sessions' = [x \in DOMAIN sessions \ sent.removed |-> sessions[x]]
              /\ actionIDToGame' =
                   IF sent.results # <<>> \/ sent.err THEN Del(bound, actionID) ELSE bound
              /\ Emit(frames, sent.down,
                      IF sent.down # <<>> THEN {actionID} ELSE {},
                      Op("handleActionFromNeuro", NoClient, actionID, actionName, data))
  /\ UNCHANGED <<open, locked, lockedToClient, actionToGame, registeredActions,
                 crashed, timers>>

\* the fallback goroutine handleShutdownGameAction starts
ShutdownTimer(client, gameID) == [client |-> client, gameID |-> gameID]

\* IntegrationClient.handleShutdownGameAction (handleActionFromNeuro for the
\* name shutdown_game)
handleShutdownGameAction(actionID, params, target) ==
  /\ ~crashed
  /\ requested' = [requested EXCEPT ![actionID] = @ + 1]
  /\ LET op == Op("handleShutdownGameAction", NoClient, actionID, ShutdownGameName, params)
     IN
     IF ~params.valid
     THEN /\ target = NoClient
          /\ Emit(sendToNeuro(<<sendActionResult(actionID, FALSE, <<"Invalid parameters">>)>>),
                  <<>>, {}, op)
          /\ UNCHANGED <<crashed, timers>>
     ELSE IF params.game_id = <<>>
     THEN /\ target = NoClient
          /\ Emit(sendToNeuro(<<sendActionResult(actionID, FALSE,
                                                 <<"Missing game_id parameter">>)>>),
                  <<>>, {}, op)
          /\ UNCHANGED <<crashed, timers>>
     ELSE LET sent == SendShutdown(target, params.game_id, TRUE)
          IN  /\ target \in SendActionTargets(params.game_id)
              /\ crashed' = sent.panic
              /\ IF sent.panic
                 THEN Emit(<<>>, <<>>, {}, op) /\ UNCHANGED timers
                 ELSE IF sent.err
                 THEN /\ Emit(sendToNeuro(<<sendActionResult(actionID, FALSE,
                                 <<"Failed to shutdown game: ", "game session not found: ">>
                                 \o params.game_id)>>),
                              <<>>, {}, op)
                      /\ UNCHANGED timers
                 ELSE /\ timers' = timers \cup { ShutdownTimer(sent.client, params.game_id) }
                      /\ Emit(sendToNeuro(<<sendActionResult(actionID, TRUE,
                                 <<"Shutdown request sent to game ">> \o params.game_id)>>),
                              sent.down, {}, op)
  /\ UNCHANGED <<open, sessions, locked, lockedToClient, actionToGame, registeredActions,
                 actionIDToGame>>

\* a variant of ForceDisconnect that only logs
ForceDisconnect_LogOnly(client, gameID) == open

\* EmulationBackend.ForceDisconnect: Client.Close closes the connection, which
\* makes readPump unregister the peer (the connected peers afterwards)
ForceDisconnect(client, gameID) == open \ {client}

\* the fallback goroutine of handleShutdownGameAction waking after
\* ShutdownGracefulTimeout
shutdownTimeout(t) ==
  /\ ~crashed
  /\ t \in timers
  /\ timers' = timers \ {t}
  /\ open' = IF t.gameID \in GetAllSessions(sessions)
             THEN ForceDisconnect(t.client, t.gameID)
             ELSE open
  /\ Emit(<<>>, <<>>, {}, Op("shutdownTimeout", t.client, "", t.gameID, ""))
  /\ UNCHANGED <<sessions, locked, lockedToClient, actionToGame, registeredActions,
                 actionIDToGame, crashed, requested>>

RECURSIVE Orders(_)
\* the orders in which a range over a map can visit its keys
Orders(keys) ==
  IF keys = {} THEN { <<>> }
  ELSE UNION { { <<k>> \o rest : rest \in Orders(keys \ {k}) } : k \in keys }

\* IntegrationClient.reregisterAllActions, on actions/reregister_all
reregisterAllActions ==
  /\ ~crashed
  /\ \E actions \in Orders(registeredActions) :
       Emit(IF Len(actions) > 0
            THEN sendToNeuro(<<UpFrame("actions/register", "", FALSE, <<>>, actions, {})>>)
            ELSE <<>>,
            <<>>, {}, Op("reregisterAllActions", NoClient, "", <<>>, ""))
  /\ UNCHANGED <<open, sessions, locked, lockedToClient, actionToGame, registeredActions,
                 actionIDToGame, crashed, timers, requested>>

(* --------------------------- specification ---------------------------- *)

Batches == UNION { [1..n -> RawNames] : n \in 1..MaxBatch }

Next ==
  \/ \E c \in Clients : handleWS(c)
  \/ \E c \in Clients : unregister(c)
  \/ \E c \in Clients : \E game \in NamesOf(c) : handleStartup(c, game)
  \/ \E c \in Clients, version \in Versions : handleNRCStartup(c, version)
  \/ \E c \in Clients, batch \in Batches : handleRegisterActions(c, batch)
  \/ \E c \in Clients, batch \in Batches : handleUnregisterActions(c, batch)
  \/ \E c \in Clients, actionID \in IDs, success \in BOOLEAN, message \in ResultMessages :
       handleActionResult(c, actionID, success, message)
  \/ \E c \in Clients : HandleClientDisconnect(c)
  \/ \E actionID \in IDs, actionName \in UpstreamNames, data \in Payloads,
        target \in Clients \cup {NoClient} :
       handleActionFromNeuro(actionID, actionName, data, target)
  \/ \E actionID \in IDs, params \in ShutdownData, target \in Clients \cup {NoClient} :
       handleShutdownGameAction(actionID, params, target)
  \/ \E t \in timers : shutdownTimeout(t)

Spec == Init /\ [][Next]_vars

\* the disconnect hook is eventually run for a peer that is gone; nothing
\* obliges a game to answer
FairSpec == Spec /\ \A c \in Clients : WF_vars(HandleClientDisconnect(c))

\* the frames a downstream peer can send, with the transport: every command
\* of EmulationBackend.messageHandler
PeerNext ==
  \/ \E c \in Clients : handleWS(c)
  \/ \E c \in Clients : unregister(c)
  \/ \E c \in Clients : \E game \in NamesOf(c) : handleStartup(c, game)
  \/ \E c \in Clients, version \in Versions : handleNRCStartup(c, version)
  \/ \E c \in Clients : handleNRCHealth(c)
  \/ \E c \in Clients, message \in ContextMessages, silent \in BOOLEAN :
       handleContext(c, message, silent)
  \/ \E c \in Clients, batch \in Batches : handleRegisterActions(c, batch)
  \/ \E c \in Clients, batch \in Batches : handleUnregisterActions(c, batch)
  \/ \E c \in Clients, query \in Queries, batch \in Batches :
       handleForceActions(c, query, batch)
  \/ \E c \in Clients, actionID \in IDs, success \in BOOLEAN, message \in ResultMessages :
       handleActionResult(c, actionID, success, message)
  \/ \E c \in Clients : handleShutdownReady(c)
  \/ \E c \in Clients : HandleClientDisconnect(c)

PeerSpec == Init /\ [][PeerNext]_vars

\* the registration frames of catalogs with several actions
CatalogBatches == UNION { [1..n -> CatalogNames] : n \in 1..MaxActions }

\* the action catalogs: registration and unregistration by the games, and
\* actions/reregister_all from the upstream
CatalogNext ==
  \/ \E c \in Clients : handleWS(c)
  \/ \E c \in Clients : unregister(c)
  \/ \E c \in Clients : \E game \in NamesOf(c) : handleStartup(c, game)
  \/ \E c \in Clients : handleNRCStartup(c, CurrentNRelayVersion)
  \/ \E c \in Clients, batch \in CatalogBatches : handleRegisterActions(c, batch)
  \/ \E c \in Clients, batch \in CatalogBatches : handleUnregisterActions(c, batch)
  \/ reregisterAllActions

CatalogSpec == Init /\ [][CatalogNext]_vars

\* the graceful shutdown of a game: shutdown_game from the upstream, the
\* fallback timer and shutdown/ready from the game
ShutdownNext ==
  \/ \E c \in Clients : handleWS(c)
  \/ \E c \in Clients : unregister(c)
  \/ \E c \in Clients : \E game \in NamesOf(c) : handleStartup(c, game)
  \/ \E c \in Clients : handleShutdownReady(c)
  \/ \E c \in Clients : HandleClientDisconnect(c)
  \/ \E actionID \in IDs, params \in ShutdownData, target \in Clients \cup {NoClient} :
       handleShutdownGameAction(actionID, params, target)
  \/ \E t \in timers : shutdownTimeout(t)

ShutdownSpec == Init /\ [][ShutdownNext]_vars

\* TestLockingMechanism's fixture: the backend locked to a connected peer
\* that has a non-compatible session (handleStartup never takes the lock, so
\* the test writes the lock fields itself); the session stands for one
\* startup frame already handled
LockFixtureInit ==
  /\ open = {"c1"}
  /\ sessions = Put(EmptyMap, "c1",
                    GameSession(<<"A">>, normalizeGameName(<<"A">>), {}, FALSE, "", NoFeatures))
  /\ locked = TRUE
  /\ lockedToClient = "c1"
  /\ actionToGame = EmptyMap
  /\ registeredActions = {}
  /\ actionIDToGame = EmptyMap
  /\ crashed = FALSE
  /\ timers = {}
  /\ requested = [x \in IDs |-> 0]
  /\ answered = [x \in IDs |-> 0]
  /\ pending = {}
  /\ nframes = 1
  /\ up = <<>>
  /\ down = <<>>
  /\ last = Op("Start", NoClient, "", <<>>, "")
  /\ NoCall /\ NoWriters /\ NoGoroutines

\* the relay run from the locked fixture
LockFixtureSpec == LockFixtureInit /\ [][Next]_vars

\* the peers' commands from the locked state of TestLockingMechanism
LockedPeerSpec == LockFixtureInit /\ [][PeerNext]_vars

(* ------------------------- pure functions ---------------------------- *)

\* the strings of at most MaxLen characters over Alphabet
NormInputs == UNION { [1..n -> Alphabet] : n \in 0..MaxLen }

\* space, tab and newline
Whitespace == {" ", "\t", "\n"}

RECURSIVE SkipWhitespace(_)
SkipWhitespace(s) ==
  IF s # <<>> /\ s[1] \in Whitespace THEN SkipWhitespace(Tail(s)) ELSE s

RECURSIVE HyphenateWhitespace(_)
\* every run of whitespace becomes one hyphen
HyphenateWhitespace(s) ==
  IF s = <<>> THEN <<>>
  ELSE IF s[1] \in Whitespace THEN <<"-">> \o HyphenateWhitespace(SkipWhitespace(s))
       ELSE <<s[1]>> \o HyphenateWhitespace(Tail(s))

\* the derived identifier rule: lowercase, whitespace runs to one hyphen,
\* delete what is outside [a-z0-9-], collapse hyphens, trim hyphens
DerivedIdentifier(displayName) ==
  LET lower    == [i \in 1..Len(displayName) |-> LowerChar(displayName[i])]
      cleaned  == SelectSeq(HyphenateWhitespace(lower), LAMBDA ch : ch \in IdChars)
  IN  TrimHyphens(CollapseHyphens(cleaned))

\* a game name is chosen
NormInit == RelayInit /\ NoWriters /\ NoGoroutines /\ arg \in NormInputs /\ ret = <<>>

\* normalizeGameName is applied to the name, then to its own result
Normalize ==
  /\ Len(ret) < 2
  /\ ret' = Append(ret, normalizeGameName(IF ret = <<>> THEN arg ELSE ret[Len(ret)]))
  /\ UNCHANGED <<relayVars, writeVars, goVars, arg>>

NormNext == Normalize

NormSpec == NormInit /\ [][NormNext]_vars

(* ----------------------- upstream write serialization ----------------- *)

\* every goroutine has MaxWrites frames to write upstream
WriteInit ==
  /\ RelayInit /\ NoCall /\ NoGoroutines
  /\ sendMu = NoWriter
  /\ pc = [g \in Writers |-> "idle"]
  /\ todo = [g \in Writers |-> MaxWrites]

\* a goroutine calls sendToNeuro
sendToNeuroCall(g) ==
  /\ pc[g] = "idle" /\ todo[g] > 0
  /\ pc' = [pc EXCEPT ![g] = "Lock"]
  /\ UNCHANGED <<relayVars, callVars, goVars, sendMu, todo>>

\* a variant of sendMuLock that does not wait for the mutex
sendMuLock_NoWait(g) ==
  /\ pc[g] = "Lock"
  /\ sendMu' = g
  /\ pc' = [pc EXCEPT ![g] = "WriteMessage"]
  /\ UNCHANGED <<relayVars, callVars, goVars, todo>>

\* ic.sendMu.Lock()
sendMuLock(g) ==
  /\ pc[g] = "Lock" /\ sendMu = NoWriter
  /\ sendMu' = g
  /\ pc' = [pc EXCEPT ![g] = "WriteMessage"]
  /\ UNCHANGED <<relayVars, callVars, goVars, todo>>

\* ic.neuroConn.WriteMessage returns
WriteMessage(g) ==
  /\ pc[g] = "WriteMessage"
  /\ todo' = [todo EXCEPT ![g] = @ - 1]
  /\ pc' = [pc EXCEPT ![g] = "Unlock"]
  /\ UNCHANGED <<relayVars, callVars, goVars, sendMu>>

\* the deferred ic.sendMu.Unlock()
sendMuUnlock(g) ==
  /\ pc[g] = "Unlock"
  /\ sendMu' = NoWriter
  /\ pc' = [pc EXCEPT ![g] = "idle"]
  /\ UNCHANGED <<relayVars, callVars, goVars, todo>>

WriteNext ==
  \/ \E g \in Writers : sendToNeuroCall(g)
  \/ \E g \in Writers : sendMuLock(g)
  \/ \E g \in Writers : WriteMessage(g)
  \/ \E g \in Writers : sendMuUnlock(g)

WriteSpec == WriteInit /\ [][WriteNext]_vars

(* ----------------------- handler goroutines --------------------------- *)

\* the instructions of a handler that touch a mutex, the peer, the upstream
\* or a field that another goroutine can reach
Lock(m)    == [op |-> "Lock", mu |-> m]
Unlock(m)  == [op |-> "Unlock", mu |-> m]
RLock(m)   == [op |-> "RLock", mu |-> m]
RUnlock(m) == [op |-> "RUnlock", mu |-> m]
Load(f)    == [op |-> "Load", field |-> f]
Store(f)   == [op |-> "Store", field |-> f]
Delete(f)  == [op |-> "Delete", field |-> f]
\* Client.Send: the frame is queued for the peer
ClientSend == [op |-> "Send"]
\* neuroConn.WriteMessage: the frame is written upstream
ConnWrite  == [op |-> "WriteMessage"]
\* if session != nil, the next `skip` instructions are not executed
IfSession(skip) == [op |-> "IfSession", skip |-> skip]
Return     == [op |-> "Return"]
\* the next `skip` instructions (the deferred recover) are executed only if
\* the send panicked because the peer's channel is closed
IfPanic(skip) == [op |-> "IfPanic", skip |-> skip]

\* IntegrationClient.sendToNeuro
sendToNeuroCode == << Lock("sendMu"), ConnWrite, Unlock("sendMu") >>

\* EmulationBackend.GetAllSessions
GetAllSessionsCode ==
  << RLock("sessionsMu"), Load("sessions"), RUnlock("sessionsMu") >>

\* IntegrationClient.registerShutdownAction: one frame on either branch
registerShutdownActionCode == GetAllSessionsCode \o sendToNeuroCode

\* the backend.OnStartup callback: sendContextToNeuro, registerShutdownAction
OnStartupCode == sendToNeuroCode \o registerShutdownActionCode

\* EmulationBackend.handleStartup; the Unlock of lockMu is deferred
handleStartupCode ==
  << Lock("lockMu"), Lock("sessionsMu"), Store("sessions"), Unlock("sessionsMu") >>
  \o OnStartupCode \o << Unlock("lockMu") >>

\* session := eb.sessions[c] under the read lock
LookupCode == << RLock("sessionsMu"), Load("sessions"), RUnlock("sessionsMu") >>

\* EmulationBackend.handleNRCStartup for a supported version: sendError
\* without a session, else the three fields and the startup-ack
handleNRCStartupCode ==
  LookupCode \o << IfSession(2), ClientSend, Return,
                   Store("VersionFeatures"), ClientSend >>

\* the backend.OnActionRegistered and OnActionUnregistered callbacks
OnActionRegisteredCode ==
  << Lock("actionMu"), Store("actionToGame"), Lock("actionsMu"),
     Store("registeredActions"), Unlock("actionsMu"), Unlock("actionMu") >>
  \o sendToNeuroCode

\* EmulationBackend.handleRegisterActions for a frame with one action
handleRegisterActionsCode ==
  LookupCode \o << IfSession(1), Return, Store("Actions"), Load("VersionFeatures") >>
  \o OnActionRegisteredCode

\* EmulationBackend.handleUnregisterActions for a frame with one name
handleUnregisterActionsCode ==
  LookupCode \o << IfSession(1), Return, Store("Actions"), Load("VersionFeatures") >>
  \o OnActionRegisteredCode

\* the backend.OnActionResult callback
OnActionResultCode ==
  sendToNeuroCode \o << Lock("actionIDMu"), Store("actionIDToGame"), Unlock("actionIDMu") >>

\* handleActionFromNeuro forgets the action id when SendAction failed
ForgetActionIDCode ==
  << Lock("actionIDMu"), Store("actionIDToGame"), Unlock("actionIDMu") >>

\* EmulationBackend.SendAction and the rest of handleActionFromNeuro:
\* without a session the result is reported upstream, else the flags are
\* read and the frame goes to the peer through sendJSONSafe; the action id
\* is forgotten on either failure
SendActionCode ==
  LookupCode \o << IfSession(10) >> \o OnActionResultCode \o ForgetActionIDCode
  \o << Return >>
  \o << Load("VersionFeatures"), ClientSend, IfPanic(12),
        Lock("sessionsMu"), Delete("sessions"), Unlock("sessionsMu") >>
  \o OnActionResultCode \o ForgetActionIDCode

\* IntegrationClient.handleActionFromNeuro for a registered action
handleActionFromNeuroCode ==
  << RLock("actionMu"), Load("actionToGame"), RUnlock("actionMu"),
     Lock("actionIDMu"), Store("actionIDToGame"), Unlock("actionIDMu") >>
  \o SendActionCode

\* a variant of HandleClientDisconnectCode that defers the Unlock of
\* sessionsMu to the return
HandleClientDisconnectCode_DeferredUnlock ==
  << Lock("sessionsMu"), Delete("sessions"),
     IfSession(2), Unlock("sessionsMu"), Return,
     Lock("lockMu"), Store("locked"), Unlock("lockMu"), Unlock("sessionsMu") >>

\* EmulationBackend.HandleClientDisconnect
HandleClientDisconnectCode ==
  << Lock("sessionsMu"), Delete("sessions"), Unlock("sessionsMu"),
     IfSession(1), Return, Lock("lockMu"), Store("locked"), Unlock("lockMu") >>

\* the fallback goroutine of handleShutdownGameAction after its sleep
shutdownFallbackCode == GetAllSessionsCode

Handlers == {"handleStartup", "handleNRCStartup", "handleRegisterActions",
             "handleUnregisterActions", "handleActionFromNeuro",
             "HandleClientDisconnect", "shutdownFallback"}

Code(h) ==
  CASE h = "handleStartup" -> handleStartupCode
    [] h = "handleNRCStartup" -> handleNRCStartupCode
    [] h = "handleRegisterActions" -> handleRegisterActionsCode
    [] h = "handleUnregisterActions" -> handleUnregisterActionsCode
    [] h = "handleActionFromNeuro" -> handleActionFromNeuroCode
    [] h = "HandleClientDisconnect" -> HandleClientDisconnectCode
    [] h = "shutdownFallback" -> shutdownFallbackCode

Goroutines == 1..MaxGoroutines

\* a goroutine that was started and has not returned
Running(g) == g <= spawned /\ at[g] <= Len(Code(scenario[g]))

\* the instruction a running goroutine executes next
Ins(g) == Code(scenario[g])[at[g]]

\* the mutexes a goroutine holds
Held(g) == { m \in Mutexes : wlock[m] = g \/ g \in rlock[m] }

\* sync.RWMutex: whether the goroutine's next instruction can proceed
Ready(g) ==
  /\ Running(g)
  /\ Ins(g).op = "Lock" => wlock[Ins(g).mu] = 0 /\ rlock[Ins(g).mu] = {}
  /\ Ins(g).op = "RLock" => wlock[Ins(g).mu] = 0

\* the order in which the handlers nest their mutexes
MutexOrder == <<"lockMu", "sessionsMu", "actionMu", "actionsMu", "actionIDMu", "sendMu">>
Rank(m) == CHOOSE i \in 1..Len(MutexOrder) : MutexOrder[i] = m

\* the mutexes of the registry and of the router
RegistryMutexes == {"lockMu", "sessionsMu", "actionMu", "actionsMu", "actionIDMu"}

\* the fields of a GameSession that handlers reach through the pointer they
\* read from eb.sessions
SessionFields == {"Actions", "VersionFeatures"}

\* goroutine g is about to read or write a field of its GameSession
AtSessionField(g) ==
  /\ Running(g)
  /\ Ins(g).op \in {"Load", "Store"}
  /\ Ins(g).field \in SessionFields

\* MaxGoroutines handlers are about to be started for one peer, which has
\* no session, a legacy session or an NR-compatible one
GoInit ==
  /\ RelayInit /\ NoCall /\ NoWriters
  /\ scenario \in [1..MaxGoroutines -> Handlers]
  /\ spawned = 0
  /\ at = [g \in 1..MaxGoroutines |-> 1]
  /\ seen = [g \in 1..MaxGoroutines |-> [state |-> "unread", obj |-> 0]]
  /\ naming = [g \in 1..MaxGoroutines |-> "unread"]
  /\ wlock = [m \in Mutexes |-> 0]
  /\ rlock = [m \in Mutexes |-> {}]
  /\ sessExists \in BOOLEAN
  /\ sessObj = 0
  /\ \E nr \in BOOLEAN :
       /\ nr => sessExists
       /\ nrOf = [o \in 0..MaxGoroutines |-> o = 0 /\ nr]

\* readPump's `go c.server.handler(...)` for the next frame (and the go
\* statements of Start and handleShutdownGameAction)
Spawn ==
  /\ spawned < Len(scenario)
  /\ spawned' = spawned + 1
  /\ UNCHANGED <<relayVars, callVars, writeVars, scenario, at, seen, naming, wlock,
                 rlock, sessExists, sessObj, nrOf>>

\* Lock and RLock of a mutex
Acquire(g) ==
  /\ Ready(g) /\ Ins(g).op \in {"Lock", "RLock"}
  /\ IF Ins(g).op = "Lock"
     THEN wlock' = [wlock EXCEPT ![Ins(g).mu] = g] /\ UNCHANGED rlock
     ELSE rlock' = [rlock EXCEPT ![Ins(g).mu] = @ \cup {g}] /\ UNCHANGED wlock
  /\ at' = [at EXCEPT ![g] = @ + 1]
  /\ UNCHANGED <<relayVars, callVars, writeVars, scenario, spawned, seen, naming,
                 sessExists, sessObj, nrOf>>

\* Unlock and RUnlock
Release(g) ==
  /\ Running(g) /\ Ins(g).op \in {"Unlock", "RUnlock"}
  /\ IF Ins(g).op = "Unlock"
     THEN wlock' = [wlock EXCEPT ![Ins(g).mu] = 0] /\ UNCHANGED rlock
     ELSE rlock' = [rlock EXCEPT ![Ins(g).mu] = @ \ {g}] /\ UNCHANGED wlock
  /\ at' = [at EXCEPT ![g] = @ + 1]
  /\ UNCHANGED <<relayVars, callVars, writeVars, scenario, spawned, seen, naming,
                 sessExists, sessObj, nrOf>>

\* a read or a write of a field that other goroutines can reach
Access(g) ==
  /\ Running(g) /\ Ins(g).op \in {"Load", "Store", "Delete"}
  /\ LET ins == Ins(g)
         found == [state |-> IF sessExists THEN "session" ELSE "nil", obj |-> sessObj]
     IN  CASE ins.field = "sessions" /\ ins.op = "Store" ->
                /\ sessExists' = TRUE /\ sessObj' = g
                /\ nrOf' = [nrOf EXCEPT ![g] = FALSE]
                /\ UNCHANGED <<seen, naming>>
           [] ins.field = "sessions" /\ ins.op = "Load" ->
                /\ seen' = [seen EXCEPT ![g] = found]
                /\ UNCHANGED <<sessExists, sessObj, nrOf, naming>>
           [] ins.field = "sessions" /\ ins.op = "Delete" ->
                /\ seen' = [seen EXCEPT ![g] = found]
                /\ sessExists' = FALSE
                /\ UNCHANGED <<sessObj, nrOf, naming>>
           [] ins.field = "VersionFeatures" /\ ins.op = "Store" ->
                /\ nrOf' = [nrOf EXCEPT ![seen[g].obj] = TRUE]
                /\ UNCHANGED <<sessExists, sessObj, seen, naming>>
           [] ins.field = "VersionFeatures" /\ ins.op = "Load" ->
                /\ naming' = [naming EXCEPT ![g] =
                                IF nrOf[seen[g].obj] THEN "prefixed" ELSE "raw"]
                /\ UNCHANGED <<sessExists, sessObj, seen, nrOf>>
           [] OTHER -> UNCHANGED <<sessExists, sessObj, seen, nrOf, naming>>
  /\ at' = [at EXCEPT ![g] = @ + 1]
  /\ UNCHANGED <<relayVars, callVars, writeVars, scenario, spawned, wlock, rlock>>

\* Client.Send or neuroConn.WriteMessage
Output(g) ==
  /\ Running(g) /\ Ins(g).op \in {"Send", "WriteMessage"}
  /\ at' = [at EXCEPT ![g] = @ + 1]
  /\ UNCHANGED <<relayVars, callVars, writeVars, scenario, spawned, seen, naming, wlock,
                 rlock, sessExists, sessObj, nrOf>>

\* if session == nil { ... return }, and the recover after a send
Branch(g) ==
  /\ Running(g) /\ Ins(g).op \in {"IfSession", "IfPanic", "Return"}
  /\ \E panic \in BOOLEAN :
       at' = [at EXCEPT ![g] =
                CASE Ins(g).op = "Return" -> Len(Code(scenario[g])) + 1
                  [] Ins(g).op = "IfSession" ->
                       IF seen[g].state = "session" THEN @ + 1 + Ins(g).skip ELSE @ + 1
                  [] Ins(g).op = "IfPanic" ->
                       IF panic THEN @ + 1 ELSE @ + 1 + Ins(g).skip]
  /\ UNCHANGED <<relayVars, callVars, writeVars, scenario, spawned, seen, naming, wlock,
                 rlock, sessExists, sessObj, nrOf>>

GoNext ==
  \/ Spawn
  \/ \E g \in Goroutines : Acquire(g)
  \/ \E g \in Goroutines : Release(g)
  \/ \E g \in Goroutines : Access(g)
  \/ \E g \in Goroutines : Output(g)
  \/ \E g \in Goroutines : Branch(g)

GoSpec == GoInit /\ [][GoNext]_vars

(* ------------------------------ properties ---------------------------- *)

\* this step is the handler h consuming a frame
Stepped(h) == last'.h = h /\ nframes' = nframes + 1

\* C1: an id that the upstream sent in exactly one `action` command gets at
\* most one action/result written upstream
C1_AtMostOneResult == \A x \in IDs : requested[x] = 1 => answered[x] <= 1

\* C2: every action forwarded to a game is eventually answered upstream
C2_EventuallyAnswered == \A x \in IDs : (x \in pending) ~> (x \notin pending)

\* C3: when HandleClientDisconnect removes a session, every id bound to its
\* game gets the result (false, "session terminated") and is released
C3_DisconnectDrains ==
  [][ \A c \in Clients :
        ( /\ last'.h = "HandleClientDisconnect" /\ last'.c = c
          /\ c \in DOMAIN sessions /\ c \notin DOMAIN sessions' )
        => \A x \in DOMAIN actionIDToGame :
             actionIDToGame[x] = sessions[c].GameID
             => /\ x \notin DOMAIN actionIDToGame'
                /\ \E i \in 1..Len(up') :
                     up'[i] = sendActionResult(x, FALSE, <<"session terminated">>) ]_vars

\* C4: an action/result whose id has no correlation entry is dropped: nothing
\* goes upstream and no table changes
C4_UnboundResultDropped ==
  [][ ( /\ Stepped("handleActionResult")
        /\ last'.c \in DOMAIN sessions
        /\ last'.id \notin DOMAIN actionIDToGame )
      => /\ up' = <<>>
         /\ UNCHANGED <<sessions, actionToGame, registeredActions, actionIDToGame>> ]_vars

\* C5: an upstream action whose name is the exposed name of raw action R of the
\* only session of game G, with G's peer connected, hands exactly one frame
\* (name R, same data, same id) to G's peer and none to any other peer
C5_ForwardedWithRawName ==
  [][ \A c \in Clients :
        ( /\ Stepped("handleActionFromNeuro")
          /\ c \in DOMAIN sessions /\ c \in open
          /\ \A d \in DOMAIN sessions : sessions[d].GameID = sessions[c].GameID => d = c
          /\ last'.name \in DOMAIN actionToGame
          /\ actionToGame[last'.name] = sessions[c].GameID
          /\ \E r \in sessions[c].Actions : RegisterName(sessions[c], r) = last'.name )
        => \E r \in sessions[c].Actions :
             /\ RegisterName(sessions[c], r) = last'.name
             /\ down' = << DownFrame(c, "action", last'.id, r, last'.data, <<>>) >> ]_vars

\* C6: an action/result for an id bound to another game is not forwarded and
\* does not release the id
C6_ForeignResultIgnored ==
  [][ ( /\ Stepped("handleActionResult")
        /\ last'.c \in DOMAIN sessions
        /\ last'.id \in DOMAIN actionIDToGame
        /\ actionIDToGame[last'.id] # sessions[last'.c].GameID )
      => /\ up' = <<>>
         /\ actionIDToGame' = actionIDToGame ]_vars

\* C7 as stated: an action with an unknown name is answered (same id, false,
\* "unknown action"), binds nothing and sends nothing downstream
C7_UnknownActionLiteral ==
  [][ ( /\ Stepped("handleActionFromNeuro")
        /\ last'.name \notin DOMAIN actionToGame )
      => /\ up' = << sendActionResult(last'.id, FALSE, <<"unknown action">>) >>
         /\ down' = <<>>
         /\ actionIDToGame' = actionIDToGame ]_vars

\* C7 amended: an action with an unknown name is answered (same id, false,
\* "Unknown action: " followed by the name), binds nothing and sends nothing
\* downstream
C7_UnknownActionRejected ==
  [][ ( /\ Stepped("handleActionFromNeuro")
        /\ last'.name \notin DOMAIN actionToGame )
      => /\ up' = << UpFrame("action/result", last'.id, FALSE,
                             <<"Unknown action: ">> \o last'.name, <<>>, {}) >>
         /\ down' = <<>>
         /\ actionIDToGame' = actionIDToGame
         /\ sessions' = sessions ]_vars

\* C7 witness: an unknown action was just rejected while a game is connected,
\* has registered an action and another request is bound
C7_Witness ==
  /\ last.h = "handleActionFromNeuro"
  /\ last.name \notin DOMAIN actionToGame
  /\ Len(up) = 1 /\ up[1].command = "action/result" /\ up[1].success = FALSE
  /\ DOMAIN actionToGame # {}
  /\ DOMAIN actionIDToGame # {}

\* C8: an action whose id is already bound is answered (false, "duplicate
\* request"), is not forwarded, and the binding is kept
C8_DuplicateRejected ==
  [][ ( /\ Stepped("handleActionFromNeuro")
        /\ last'.name \in DOMAIN actionToGame
        /\ last'.id \in DOMAIN actionIDToGame )
      => /\ up' = << sendActionResult(last'.id, FALSE, <<"duplicate request">>) >>
         /\ down' = <<>>
         /\ actionIDToGame' = actionIDToGame ]_vars

\* C9: while another peer has a non-multiplexing session (the lock holder), a
\* startup is answered with nrelay/locked and creates no session
C9_LockedStartupRejected ==
  [][ \A c \in Clients :
        ( /\ Stepped("handleStartup") /\ last'.c = c
          /\ c \notin DOMAIN sessions
          /\ \E d \in DOMAIN sessions :
               d # c /\ ~sessions[d].VersionFeatures.SupportsMultiplexing )
        => /\ c \notin DOMAIN sessions'
           /\ Len(down') = 1
           /\ down'[1].to = c /\ down'[1].command = "nrelay/locked" ]_vars

\* C10: IsLocked() holds exactly when some session is non-multiplexing, and
\* the holder is such a session
C10_LockedIffLegacySession ==
  /\ IsLocked <=> \E c \in DOMAIN sessions : ~sessions[c].VersionFeatures.SupportsMultiplexing
  /\ IsLocked => /\ lockedToClient \in DOMAIN sessions
                 /\ ~sessions[lockedToClient].VersionFeatures.SupportsMultiplexing

C12_EmptyIdRejected ==
  [][ ( /\ Stepped("handleStartup")
        /\ normalizeGameName(last'.name) = <<>> )
      => /\ sessions' = sessions
         /\ \E i \in 1..Len(down') :
              down'[i].to = last'.c /\ down'[i].error # <<>> ]_vars

\* C13: no two sessions share a game id, so GetAllSessions has one entry per
\* session
C13_UniqueGameIDs ==
  /\ \A c, d \in DOMAIN sessions : sessions[c].GameID = sessions[d].GameID => c = d
  /\ Cardinality(GetAllSessions(sessions)) = Cardinality(DOMAIN sessions)

\* C14: when the transport unregisters a peer, the peer's session leaves the
\* registry, so every id in GetAllSessions belongs to a connected peer
C14_ClosedPeerHasNoSession ==
  [][ \A c \in Clients :
        (c \in open /\ c \notin open') => c \notin DOMAIN sessions' ]_vars

C16_UnregisterRemovesName ==
  [][ \A c \in Clients :
        ( /\ Stepped("handleUnregisterActions") /\ last'.c = c
          /\ c \in DOMAIN sessions )
        => \A i \in 1..Len(last'.batch) :
             LET exposed == RegisterName(sessions[c], last'.batch[i])
             IN  ( /\ last'.batch[i] \in sessions[c].Actions
                   /\ exposed \in DOMAIN actionToGame
                   /\ actionToGame[exposed] = sessions[c].GameID )
                 => /\ exposed \notin DOMAIN actionToGame'
                    /\ exposed \notin registeredActions' ]_vars

\* C17: every ActionNameMap entry names the game of a live session whose
\* catalog holds the raw name behind the exposed name
C17_NameMapConsistent ==
  \A n \in DOMAIN actionToGame :
    \E c \in DOMAIN sessions :
      /\ sessions[c].GameID = actionToGame[n]
      /\ \E r \in sessions[c].Actions : RegisterName(sessions[c], r) = n

\* C18: registering an exposed name that is mapped to a different game leaves
\* the existing mapping with its owner
C18_NameConflictRejected ==
  [][ \A c \in Clients :
        ( /\ Stepped("handleRegisterActions") /\ last'.c = c
          /\ c \in DOMAIN sessions )
        => \A i \in 1..Len(last'.batch) :
             LET exposed == RegisterName(sessions[c], last'.batch[i])
             IN  ( /\ exposed \in DOMAIN actionToGame
                   /\ actionToGame[exposed] # sessions[c].GameID )
                 => /\ exposed \in DOMAIN actionToGame'
                    /\ actionToGame'[exposed] = actionToGame[exposed] ]_vars

\* C19: every step that opens or closes a session writes upstream the
\* shutdown_game registration with enum = the live game ids, or the
\* unregistration of shutdown_game when no session is left
C19_ShutdownEnumTracksSessions ==
  [][ (DOMAIN sessions' # DOMAIN sessions)
      => \E i \in 1..Len(up') :
           /\ up'[i].names = <<ShutdownGameName>>
           /\ IF DOMAIN sessions' = {}
              THEN up'[i].command = "actions/unregister"
              ELSE /\ up'[i].command = "actions/register"
                   /\ up'[i].enum = GetAllSessions(sessions') ]_vars

\* C20: shutdown_game with a non-empty game_id that names a live session hands
\* exactly one shutdown/graceful {wants_shutdown: true} frame to a peer whose
\* session has that id, none to any other peer, and writes upstream exactly
\* one result for the request, with success = true
C20_ShutdownDelivered ==
  [][ ( /\ Stepped("handleShutdownGameAction")
        /\ last'.data.valid
        /\ last'.data.game_id # <<>>
        /\ last'.data.game_id \in GetAllSessions(sessions) )
      => /\ \E c \in DOMAIN sessions :
              /\ sessions[c].GameID = last'.data.game_id
              /\ down' = << DownFrame(c, "shutdown/graceful", "", <<>>, "true", <<>>) >>
         /\ Len(up') = 1
         /\ up'[1].command = "action/result"
         /\ up'[1].id = last'.id
         /\ up'[1].success = TRUE ]_vars

\* C21 as stated: shutdown_game with unparsable data, no game_id, or a game_id
\* no session has, writes upstream exactly one failure result for the request
\* ("no such game" for an unknown game), sends nothing downstream and starts
\* no timer
C21_ShutdownRejectedLiteral ==
  [][ ( /\ Stepped("handleShutdownGameAction")
        /\ \/ ~last'.data.valid
           \/ last'.data.game_id = <<>>
           \/ last'.data.game_id \notin GetAllSessions(sessions) )
      => /\ Len(up') = 1
         /\ up'[1].command = "action/result"
         /\ up'[1].id = last'.id
         /\ up'[1].success = FALSE
         /\ ( (last'.data.valid /\ last'.data.game_id # <<>>)
              => up'[1].message = <<"no such game">> )
         /\ down' = <<>>
         /\ timers' = timers ]_vars

\* C21 amended: the same, the message for an unknown game being "Failed to
\* shutdown game: game session not found: " followed by the game id
C21_ShutdownRejected ==
  [][ ( /\ Stepped("handleShutdownGameAction")
        /\ \/ ~last'.data.valid
           \/ last'.data.game_id = <<>>
           \/ last'.data.game_id \notin GetAllSessions(sessions) )
      => /\ Len(up') = 1
         /\ up'[1].command = "action/result"
         /\ up'[1].id = last'.id
         /\ up'[1].success = FALSE
         /\ ( (last'.data.valid /\ last'.data.game_id # <<>>)
              => up'[1].message =
                   <<"Failed to shutdown game: ", "game session not found: ">>
                   \o last'.data.game_id )
         /\ down' = <<>>
         /\ timers' = timers
         /\ ~crashed' ]_vars

\* C21 witness: shutdown_game for an unknown game id was just refused while a
\* game is connected
C21_Witness ==
  /\ last.h = "handleShutdownGameAction"
  /\ last.data.valid
  /\ last.data.game_id # <<>>
  /\ last.data.game_id \notin GetAllSessions(sessions)
  /\ DOMAIN sessions # {}
  /\ Len(up) = 1 /\ up[1].success = FALSE
  /\ timers = {}

C23_ReadyCancelsTimer ==
  [][ \A c \in Clients :
        ( /\ Stepped("handleShutdownReady") /\ last'.c = c
          /\ c \in DOMAIN sessions )
        => \A t \in timers' : t.client # c ]_vars

NonStartupHandlers ==
  {"handleContext", "handleRegisterActions", "handleUnregisterActions",
   "handleForceActions", "handleActionResult", "handleShutdownReady",
   "handleNRCStartup", "handleNRCHealth"}

\* C26: a command other than startup from a peer that has no session creates
\* no session, changes neither the routing tables nor the lock, and writes
\* nothing upstream
C26_NoSessionNoEffect ==
  [][ \A c \in Clients :
        ( /\ nframes' = nframes + 1
          /\ last'.h \in NonStartupHandlers
          /\ last'.c = c
          /\ c \notin DOMAIN sessions )
        => /\ sessions' = sessions
           /\ UNCHANGED <<actionToGame, registeredActions, actionIDToGame,
                          locked, lockedToClient>>
           /\ up' = <<>> ]_vars

\* C26 witness: a peer without a session has just sent a command other than
\* startup while another peer has a session and a registered action
C26_Witness ==
  /\ last.h \in NonStartupHandlers
  /\ last.c \in Clients
  /\ last.c \notin DOMAIN sessions
  /\ DOMAIN sessions # {}
  /\ DOMAIN actionToGame # {}
  /\ up = <<>>

C29_DisconnectRemovesOnce ==
  [][ \A c \in Clients :
        /\ ( /\ last'.h = "HandleClientDisconnect" /\ last'.c = c
             /\ open' = open )
           => /\ c \notin DOMAIN sessions'
              /\ DOMAIN sessions' = DOMAIN sessions \ {c}
              /\ \A d \in DOMAIN sessions' : sessions'[d] = sessions[d]
              /\ (c \notin DOMAIN sessions)
                   => UNCHANGED <<sessions, locked, lockedToClient, actionToGame,
                                  registeredActions, actionIDToGame>>
        /\ (c \notin DOMAIN sessions /\ c \in DOMAIN sessions')
           => (last'.h = "handleStartup" /\ last'.c = c) ]_vars

\* C29 witness: HandleClientDisconnect has just run, no session is left, and
\* the action table shows that a session had been created before
C29_Witness ==
  /\ last.h = "HandleClientDisconnect"
  /\ DOMAIN sessions = {}
  /\ DOMAIN actionToGame # {}
  /\ nframes >= 3

\* C28: at most one goroutine is inside neuroConn.WriteMessage at any time
C28_OneUpstreamWriter ==
  Cardinality({ g \in Writers : pc[g] = "WriteMessage" }) <= 1

\* C28 witness: one goroutine is writing while two others wait for sendMu
C28_Witness ==
  /\ \E g \in Writers : pc[g] = "WriteMessage" /\ sendMu = g
  /\ Cardinality({ g \in Writers : pc[g] = "Lock" }) >= 2

\* C30: normalizeGameName applied to its own result returns that result
C30_NormalizeIdempotent ==
  Len(ret) = 2 => ret[2] = ret[1]

\* C30 witness: a name that normalisation changes into a non-empty id has
\* been normalised twice
C30_Witness ==
  /\ Len(ret) = 2
  /\ ret[1] # arg
  /\ ret[1] # <<>>
  /\ Len(ret[1]) < Len(arg)

\* C31: normalizeGameName returns the derived identifier of its input
C31_DerivedIdRule ==
  Len(ret) >= 1 => ret[1] = DerivedIdentifier(arg)

\* C32: a successful nrc-endpoints/startup writes the compatibility flag, the
\* version and the feature flags of the sender's session and nothing else:
\* the lock and its holder, every other session and the action maps stay
\* as they were
C32_NRCStartupKeepsLock ==
  [][ \A c \in Clients :
        ( /\ Stepped("handleNRCStartup") /\ last'.c = c
          /\ c \in DOMAIN sessions
          /\ last'.data \in {"1.0.0"} )
        => /\ locked' = locked
           /\ lockedToClient' = lockedToClient
           /\ sessions' = [sessions EXCEPT
                             ![c] = [sessions[c] EXCEPT
                                       !.NRelayCompatible = TRUE,
                                       !.NRelayVersion = last'.data,
                                       !.VersionFeatures =
                                         [SupportsHealthEndpoint |-> TRUE,
                                          SupportsMultiplexing   |-> TRUE,
                                          SupportsCustomRouting  |-> TRUE]]]
           /\ UNCHANGED <<actionToGame, registeredActions, actionIDToGame, timers>> ]_vars

\* C32 witness: the holder of the lock has completed the NR handshake and
\* still holds the lock
C32_Witness ==
  /\ last.h = "handleNRCStartup"
  /\ last.data = "1.0.0"
  /\ locked
  /\ lockedToClient = last.c
  /\ last.c \in DOMAIN sessions
  /\ sessions[last.c].NRelayCompatible

\* C33: every name of an upstream actions/force frame, forced by a session
\* for raw actions of its catalog, is a name that ActionNameMap resolves to
\* the game of that session
C33_ForcedNamesResolve ==
  [][ \A c \in Clients :
        ( /\ Stepped("handleForceActions") /\ last'.c = c
          /\ c \in DOMAIN sessions
          /\ Range(last'.batch) \subseteq sessions[c].Actions )
        => /\ Len(up') = 1
           /\ up'[1].command = "actions/force"
           /\ Len(up'[1].names) = Len(last'.batch)
           /\ \A i \in 1..Len(up'[1].names) :
                /\ up'[1].names[i] \in DOMAIN actionToGame
                /\ actionToGame[up'[1].names[i]] = sessions[c].GameID ]_vars

\* C34: on actions/reregister_all the relay writes one actions/register frame
\* upstream (none when no action is exposed) whose names are exactly the
\* exposed names of the actions in the catalogs of the live sessions
C34_ReregisterLiveCatalog ==
  [][ Stepped("reregisterAllActions")
      => LET live == { c \in DOMAIN sessions : c \in open }
             current == UNION { { RegisterName(sessions[c], raw) :
                                    raw \in sessions[c].Actions } : c \in live }
         IN  /\ Len(up') <= 1
             /\ (current # {}) => Len(up') = 1
             /\ \A i \in 1..Len(up') :
                  /\ up'[i].command = "actions/register"
                  /\ Range(up'[i].names) = current ]_vars

\* C35: one actions/register frame of a game with a session is answered by
\* exactly one upstream actions/register frame, which carries the exposed
\* name of every action of the frame
C35_OneRegisterFrame ==
  [][ \A c \in Clients :
        ( /\ Stepped("handleRegisterActions") /\ last'.c = c
          /\ c \in DOMAIN sessions
          /\ Len(last'.batch) >= 1 )
        => /\ Len(up') = 1
           /\ up'[1].command = "actions/register"
           /\ Range(up'[1].names) =
                { RegisterName(sessions[c], last'.batch[i]) : i \in 1..Len(last'.batch) } ]_vars

\* C36: a goroutine that is about to write to the peer or to the upstream
\* holds none of lockMu, sessionsMu, actionMu, actionsMu, actionIDMu
C36_NoWriteUnderMutex ==
  \A g \in Goroutines :
    (Running(g) /\ Ins(g).op \in {"Send", "WriteMessage"})
    => Held(g) \cap RegistryMutexes = {}

\* C37: a handler of actions/register whose frame arrived right after a
\* startup frame finds the session of that startup, and one whose frame
\* arrived right after a successful nrc-endpoints/startup names its action
\* with the prefix
C37_FramesInArrivalOrder ==
  \A j \in Goroutines : \A i \in Goroutines :
    (i + 1 = j /\ scenario[j] = "handleRegisterActions")
    => /\ (scenario[i] = "handleStartup" /\ seen[j].state # "unread")
            => seen[j] = [state |-> "session", obj |-> i]
       /\ (scenario[i] = "handleNRCStartup" /\ sessExists /\ naming[j] # "unread")
            => naming[j] = "prefixed"

\* C38: while a handler is running some handler can take its next step, and
\* a goroutine that takes a mutex holds only mutexes that come earlier in
\* MutexOrder
C38_NoDeadlock ==
  /\ []( (\E g \in Goroutines : Running(g)) => (\E g \in Goroutines : Ready(g)) )
  /\ [][ \A g \in Goroutines :
           (Running(g) /\ Ins(g).op \in {"Lock", "RLock"} /\ at'[g] = at[g] + 1)
           => \A m \in Held(g) : Rank(m) < Rank(Ins(g).mu) ]_vars

\* C38 witness: a handler that holds lockMu waits for a mutex that another
\* handler holds
C38_Witness ==
  \E g \in Goroutines : \E h \in Goroutines :
    /\ g # h
    /\ Running(g) /\ ~Ready(g)
    /\ wlock["lockMu"] = g
    /\ wlock[Ins(g).mu] = h

\* C39: no handler has sent on the closed channel of a peer through sendJSON
C39_NoUnguardedSendOnClosed == crashed = FALSE

\* C40: no two handlers are about to touch the same field of the same
\* GameSession at once when one of them writes it
C40_SessionFieldsExclusive ==
  \A g \in Goroutines : \A h \in Goroutines :
    ( /\ g # h
      /\ AtSessionField(g) /\ AtSessionField(h)
      /\ Ins(g).field = Ins(h).field
      /\ seen[g].obj = seen[h].obj
      /\ "Store" \in {Ins(g).op, Ins(h).op} )
    => \E m \in Mutexes : wlock[m] \in {g, h} /\ m \in Held(g) \cap Held(h)

====
